---- MODULE Spec2Model ----
(***************************************************************************)
(* Model of Yt-to-Summary/app.py: the URL parser get_video_id, the         *)
(* transcript fetcher extract_transcript_details, the summary generator    *)
(* generate_gemini_content and the Streamlit script that drives them.      *)
(*                                                                         *)
(* A Python str is a sequence of one-character strings.  A message the     *)
(* program prints as a literal is a one-element sequence holding the       *)
(* literal.  Python's None is the value None below; no str equals it.      *)
(***************************************************************************)
EXTENDS Integers, Sequences, FiniteSets, TLC

VARIABLES
    url,                \* argument of the parser run (parser specification)
    result,             \* value get_video_id returned for url
    ppc,                \* position of the parser run: "call" or "done"
    youtube_link,       \* value of the st.text_input widget
    clicked,            \* st.button(...) of the current script run
    pc,                 \* "idle", "fetching" (inside get_transcript), "generating" (inside generate_content)
    video_id,           \* video_id of the button handler
    service_transcript, \* the list get_transcript returned (line 61)
    transcript_text,    \* transcript_text of the button handler (line 123)
    summary,            \* summary of the button handler (line 127)
    fetch_outcome,      \* how get_transcript ended in this run
    gen_outcome,        \* how generate_content / response.text ended in this run
    gen_text,           \* the text the generation service returned in this run
    screen,             \* elements rendered by the current script run, in order
    calls,              \* external service calls of the current script run, in order
    raised              \* TRUE when an exception left a helper and reached the script

vars == <<url, result, ppc, youtube_link, clicked, pc, video_id, service_transcript,
          transcript_text, summary, fetch_outcome, gen_outcome, gen_text, screen,
          calls, raised>>

uivars == <<youtube_link, clicked, pc, video_id, service_transcript, transcript_text,
            summary, fetch_outcome, gen_outcome, gen_text, screen, calls, raised>>

parservars == <<url, result, ppc>>

----------------------------------------------------------------------------
(* Bounds *)

MaxTokens == 4
MaxFrags == 2

----------------------------------------------------------------------------
(* Python values *)

None == <<"<None>">>

\* bool(x) for x an Optional[str]: None and "" are falsy
Truthy(x) == x # None /\ x # <<>>

----------------------------------------------------------------------------
(* get_video_id: re.search(r"(?:v=|\/)([0-9A-Za-z_-]{11}).*", url) *)

IdLen == 11

Digits == {"0", "1", "2", "3", "4", "5", "6", "7", "8", "9"}

Upper == {"A", "B", "C", "D", "E", "F", "G", "H", "I", "J", "K", "L", "M",
          "N", "O", "P", "Q", "R", "S", "T", "U", "V", "W", "X", "Y", "Z"}

Lower == {"a", "b", "c", "d", "e", "f", "g", "h", "i", "j", "k", "l", "m",
          "n", "o", "p", "q", "r", "s", "t", "u", "v", "w", "x", "y", "z"}

\* a character class that also lets "?" and "&" through
IdCharsLoose == Digits \cup Upper \cup Lower \cup {"_", "-", "?", "&"}

\* the character class [0-9A-Za-z_-]
IdChars == Digits \cup Upper \cup Lower \cup {"_", "-"}

\* length of the text the group (?:v=|\/) matches at position i, 0 when it does not match
PrefixLenAt(s, i) ==
    IF i + 1 <= Len(s) /\ s[i] = "v" /\ s[i + 1] = "="
    THEN 2
    ELSE IF i <= Len(s) /\ s[i] = "/" THEN 1 ELSE 0

\* ([0-9A-Za-z_-]{11}) matches at position j
GroupMatchesAt(s, j) ==
    /\ j + IdLen - 1 <= Len(s)
    /\ \A k \in j .. (j + IdLen - 1) : s[k] \in IdChars

\* the whole pattern matches starting at position i (the trailing .* matches any rest, possibly empty)
MatchesAt(s, i) ==
    /\ PrefixLenAt(s, i) > 0
    /\ GroupMatchesAt(s, i + PrefixLenAt(s, i))

\* match.group(1) of the match starting at position i
Group1(s, i) ==
    SubSeq(s, i + PrefixLenAt(s, i), i + PrefixLenAt(s, i) + IdLen - 1)

RECURSIVE SearchFromRight(_, _)
\* a scan that tries the start positions from the right end
SearchFromRight(s, i) ==
    IF i < 1 THEN 0
    ELSE IF MatchesAt(s, i) THEN i
    ELSE SearchFromRight(s, i - 1)

RECURSIVE SearchFrom(_, _)
\* re.search: try the start positions left to right, first match wins; 0 when none
SearchFrom(s, i) ==
    IF i > Len(s) THEN 0
    ELSE IF MatchesAt(s, i) THEN i
    ELSE SearchFrom(s, i + 1)

get_video_id_rightmost(u) ==
    IF SearchFromRight(u, Len(u)) # 0
    THEN Group1(u, SearchFromRight(u, Len(u)))
    ELSE None

get_video_id(u) ==
    IF SearchFrom(u, 1) # 0
    THEN Group1(u, SearchFrom(u, 1))
    ELSE None

----------------------------------------------------------------------------
(* Parser inputs: concatenations of at most MaxTokens tokens *)

RunA == [k \in 1 .. IdLen |-> "a"]

RunB == <<"B", "9", "_", "-", "z", "Q", "0", "v", "k", "X", "w">>

Run10 == [k \in 1 .. (IdLen - 1) |-> "c"]

Tokens == {<<"v">>, <<"v", "=">>, <<"/">>, <<"?">>, <<"a">>, RunA, RunB, Run10}

RECURSIVE Concats(_)
\* all concatenations of exactly n tokens
Concats(n) ==
    IF n = 0 THEN {<<>>}
    ELSE {p \o t : p \in Concats(n - 1), t \in Tokens}

Inputs == UNION {Concats(n) : n \in 0 .. MaxTokens}

----------------------------------------------------------------------------
(* Texts.  system_prompt stands for the template of lines 16-41: its first *)
(* line break, an elided body, and its last line "TRANSCRIPT DATA:\n".     *)

system_prompt == <<"\n", "Y", "o", "u", " ", "a", "r", "e", "...", "D", "A", "T", "A", ":", "\n">>

Hello == <<"H", "e", "l", "l", "o">>

world == <<"w", "o", "r", "l", "d">>

\* texts a caption fragment may carry
FragTexts == {<<>>, Hello, world}

\* one caption entry of the transcript service; only "text" is read
Fragment(t) == [text |-> t]

RECURSIVE FragLists(_)
\* all fragment lists of exactly n entries
FragLists(n) ==
    IF n = 0 THEN {<<>>}
    ELSE {Append(p, Fragment(t)) : p \in FragLists(n - 1), t \in FragTexts}

\* what get_transcript may return
Transcripts == UNION {FragLists(n) : n \in 0 .. MaxFrags}

\* what response.text may be
GenTexts == {<<>>, <<"X">>, <<"#", " ", "N", "o", "t", "e", "s">>}

\* what the user may type into the text input
Links ==
    { <<>>,
      <<"a", "?", "v", "=", "a">>,
      <<"/">> \o RunA,
      <<"/", "w", "?", "v", "=">> \o RunB \o <<"&", "t", "=", "1">>,
      <<"/">> \o RunA \o <<"_", "l", "?", "v", "=">> \o RunB }

\* exceptions get_transcript may raise
TranscriptExceptions == {"TranscriptsDisabled", "NoTranscriptFound", "RequestException"}

\* exceptions GenerativeModel / generate_content / response.text may raise
GenerateExceptions == {"ResourceExhausted", "ValueError"}

----------------------------------------------------------------------------
(* Rendered elements and external calls *)

Element(k, t, l) == [kind |-> k, text |-> t, line |-> l]

Call(s, a) == [svc |-> s, arg |-> a]

----------------------------------------------------------------------------
(* try / except *)

\* isinstance(exc, cls): the three classes caught are unrelated except through Exception
IsInstance(exc, cls) == cls = "Exception" \/ cls = exc

\* the except clauses of extract_transcript_details without the catch-all
TranscriptClausesNoCatchAll ==
    << [cls |-> "TranscriptsDisabled", line |-> 71,
        msg |-> <<"Subtitles are disabled for this video.">>],
       [cls |-> "NoTranscriptFound", line |-> 74,
        msg |-> <<"No transcript found for this video language.">>] >>

\* the except clauses of extract_transcript_details with the first two messages exchanged
TranscriptClausesSwapped ==
    << [cls |-> "TranscriptsDisabled", line |-> 71,
        msg |-> <<"No transcript found for this video language.">>],
       [cls |-> "NoTranscriptFound", line |-> 74,
        msg |-> <<"Subtitles are disabled for this video.">>],
       [cls |-> "Exception", line |-> 77,
        msg |-> <<"Error extracting transcript: ">>] >>

\* the except clauses of extract_transcript_details, in order
TranscriptClauses ==
    << [cls |-> "TranscriptsDisabled", line |-> 71,
        msg |-> <<"Subtitles are disabled for this video.">>],
       [cls |-> "NoTranscriptFound", line |-> 74,
        msg |-> <<"No transcript found for this video language.">>],
       [cls |-> "Exception", line |-> 77,
        msg |-> <<"Error extracting transcript: ">>] >>

\* the except clause of generate_gemini_content
GenerateClauses ==
    << [cls |-> "Exception", line |-> 91,
        msg |-> <<"Error generating summary: ">>] >>

\* index of the first clause that catches exc, 0 when none does
CatchIndex(clauses, exc) ==
    IF \E k \in 1 .. Len(clauses) : IsInstance(exc, clauses[k].cls)
    THEN CHOOSE k \in 1 .. Len(clauses) :
             /\ IsInstance(exc, clauses[k].cls)
             /\ \A j \in 1 .. (k - 1) : ~IsInstance(exc, clauses[j].cls)
    ELSE 0

\* st.error(...) of the clause: the catch-all clauses format the exception into the message
ErrorOf(clause, exc) ==
    Element("error",
            IF clause.cls = "Exception" THEN clause.msg \o <<exc>> ELSE clause.msg,
            clause.line)

----------------------------------------------------------------------------
(* extract_transcript_details, success path (lines 63-68) *)

RECURSIVE join_fragments(_)
\* " ".join(i["text"] for i in transcript_text)
join_fragments(frags) ==
    IF frags = <<>> THEN <<>>
    ELSE IF Len(frags) = 1 THEN frags[1].text
    ELSE frags[1].text \o <<" ">> \o join_fragments(Tail(frags))

RECURSIVE transcript_loop(_, _)
\* the for loop: transcript += " " + i["text"]
transcript_loop(transcript, rest) ==
    IF rest = <<>> THEN transcript
    ELSE transcript_loop(transcript \o <<" ">> \o Head(rest).text, Tail(rest))

\* transcript = ""; the loop; return transcript
concat_transcript(frags) == transcript_loop(<<>>, frags)

----------------------------------------------------------------------------
(* generate_gemini_content (line 87) *)

full_prompt_reversed(transcript, prompt) == transcript \o prompt

\* full_prompt = prompt + transcript_text
full_prompt(transcript, prompt) == prompt \o transcript

----------------------------------------------------------------------------
(* The Streamlit script (lines 102-132).  Every user interaction reruns    *)
(* the script from the top; the elements of the previous run are replaced. *)
(* The static title, caption and spinner are not modelled.                 *)

\* lines 104-111: thumbnail or validation warning for a non-empty link
TopBlock(link) ==
    IF Truthy(link)
    THEN IF Truthy(get_video_id(link))
         THEN <<Element("image", get_video_id(link), 109)>>
         ELSE <<Element("warning", <<"Please enter a valid YouTube URL.">>, 111)>>
    ELSE <<>>

\* lines 115-116 with the test inverted
EmptyLinkBlockInverted(link) ==
    IF Truthy(link)
    THEN <<Element("warning", <<"Please enter a YouTube link first.">>, 116)>>
    ELSE <<>>

\* lines 115-116: warning when the button is pressed without a link
EmptyLinkBlock(link) ==
    IF ~Truthy(link)
    THEN <<Element("warning", <<"Please enter a YouTube link first.">>, 116)>>
    ELSE <<>>

\* lines 129-132: the rendered notes
SummaryBlock(s) ==
    IF Truthy(s)
    THEN << Element("markdown", <<"---">>, 130),
            Element("subheader", <<"Here are your detailed notes:">>, 131),
            Element("markdown", s, 132) >>
    ELSE <<>>

\* the script's names at the start of a run
FreshLocals ==
    /\ service_transcript' = <<>>
    /\ transcript_text' = None
    /\ summary' = None
    /\ fetch_outcome' = "none"
    /\ gen_outcome' = "none"
    /\ gen_text' = None
    /\ raised' = FALSE

UIInit ==
    /\ youtube_link = <<>>
    /\ clicked = FALSE
    /\ pc = "idle"
    /\ video_id = None
    /\ service_transcript = <<>>
    /\ transcript_text = None
    /\ summary = None
    /\ fetch_outcome = "none"
    /\ gen_outcome = "none"
    /\ gen_text = None
    /\ screen = <<>>
    /\ calls = <<>>
    /\ raised = FALSE

\* the user edits the text input: a run with st.button(...) False
EnterLink(l) ==
    /\ pc = "idle"
    /\ youtube_link' = l
    /\ clicked' = FALSE
    /\ video_id' = IF Truthy(l) THEN get_video_id(l) ELSE None
    /\ screen' = TopBlock(l)
    /\ calls' = <<>>
    /\ pc' = "idle"
    /\ FreshLocals
    /\ UNCHANGED parservars

\* the user presses "Generate Detailed Notes": a run up to the call of get_transcript
ClickButton ==
    /\ pc = "idle"
    /\ clicked' = TRUE
    /\ video_id' = IF Truthy(youtube_link) THEN get_video_id(youtube_link) ELSE None
    /\ screen' = TopBlock(youtube_link) \o EmptyLinkBlock(youtube_link)
    /\ IF Truthy(youtube_link) /\ Truthy(get_video_id(youtube_link))
       THEN /\ calls' = <<Call("transcript", get_video_id(youtube_link))>>
            /\ pc' = "fetching"
       ELSE /\ calls' = <<>>
            /\ pc' = "idle"
    /\ FreshLocals
    /\ UNCHANGED <<youtube_link, parservars>>

\* get_transcript returns frags: lines 63-68, then lines 125-127 up to generate_content
TranscriptReturns(frags) ==
    /\ pc = "fetching"
    /\ service_transcript' = frags
    /\ fetch_outcome' = "ok"
    /\ transcript_text' = concat_transcript(frags)
    /\ IF Truthy(concat_transcript(frags))
       THEN /\ calls' = Append(calls, Call("generate",
                                  full_prompt(concat_transcript(frags), system_prompt)))
            /\ pc' = "generating"
       ELSE /\ calls' = calls
            /\ pc' = "idle"
    /\ UNCHANGED <<youtube_link, clicked, video_id, summary, gen_outcome, gen_text,
                   screen, raised, parservars>>

\* a fetcher that calls get_transcript a second time after a failure
TranscriptRaisesRetry(exc) ==
    /\ pc = "fetching"
    /\ fetch_outcome' = exc
    /\ IF Len(calls) < 2
       THEN /\ calls' = Append(calls, Call("transcript", video_id))
            /\ pc' = "fetching"
            /\ screen' = screen
       ELSE /\ calls' = calls
            /\ pc' = "idle"
            /\ screen' = Append(screen,
                           ErrorOf(TranscriptClauses[CatchIndex(TranscriptClauses, exc)], exc))
    /\ transcript_text' = None
    /\ UNCHANGED <<youtube_link, clicked, video_id, service_transcript, summary,
                   gen_outcome, gen_text, raised, parservars>>

\* get_transcript raises exc: lines 70-78, then line 125
TranscriptRaises(exc) ==
    /\ pc = "fetching"
    /\ fetch_outcome' = exc
    /\ IF CatchIndex(TranscriptClauses, exc) # 0
       THEN /\ screen' = Append(screen,
                           ErrorOf(TranscriptClauses[CatchIndex(TranscriptClauses, exc)], exc))
            /\ raised' = FALSE
       ELSE /\ screen' = screen
            /\ raised' = TRUE
    /\ transcript_text' = None
    /\ pc' = "idle"
    /\ UNCHANGED <<youtube_link, clicked, video_id, service_transcript, summary,
                   gen_outcome, gen_text, calls, parservars>>

\* response.text is x: line 89, then lines 129-132
GenerateReturns(x) ==
    /\ pc = "generating"
    /\ gen_outcome' = "ok"
    /\ gen_text' = x
    /\ summary' = x
    /\ screen' = screen \o SummaryBlock(x)
    /\ pc' = "idle"
    /\ UNCHANGED <<youtube_link, clicked, video_id, service_transcript, transcript_text,
                   fetch_outcome, calls, raised, parservars>>

\* the generation call raises exc: lines 90-92, then line 129
GenerateRaises(exc) ==
    /\ pc = "generating"
    /\ gen_outcome' = exc
    /\ IF CatchIndex(GenerateClauses, exc) # 0
       THEN /\ screen' = Append(screen,
                           ErrorOf(GenerateClauses[CatchIndex(GenerateClauses, exc)], exc))
            /\ raised' = FALSE
       ELSE /\ screen' = screen
            /\ raised' = TRUE
    /\ summary' = None
    /\ pc' = "idle"
    /\ UNCHANGED <<youtube_link, clicked, video_id, service_transcript, transcript_text,
                   fetch_outcome, gen_text, calls, parservars>>

Init ==
    /\ UIInit
    /\ url = <<>>
    /\ result = None
    /\ ppc = "done"

Next ==
    \/ \E l \in Links : EnterLink(l)
    \/ ClickButton
    \/ \E frags \in Transcripts : TranscriptReturns(frags)
    \/ \E exc \in TranscriptExceptions : TranscriptRaises(exc)
    \/ \E x \in GenTexts : GenerateReturns(x)
    \/ \E exc \in GenerateExceptions : GenerateRaises(exc)

Spec == Init /\ [][Next]_vars

----------------------------------------------------------------------------
(* The parser on its own: one call of get_video_id on a bounded input *)

ParserInit ==
    /\ UIInit
    /\ url \in Inputs
    /\ result = None
    /\ ppc = "call"

\* result = get_video_id(url)
CallGetVideoId ==
    /\ ppc = "call"
    /\ result' = get_video_id(url)
    /\ ppc' = "done"
    /\ UNCHANGED <<url, uivars>>

ParserNext == CallGetVideoId

ParserSpec == ParserInit /\ [][ParserNext]_vars

----------------------------------------------------------------------------
(* Vocabulary of the properties *)

\* a character of the identifier alphabet: letters, digits, "-" and "_"
IsIdentifierChar(c) == c \in Digits \cup Upper \cup Lower \cup {"-", "_"}

\* 11 identifier characters start at position j of s
IdentifierAt(s, j) ==
    /\ j >= 1
    /\ j + 10 <= Len(s)
    /\ \A k \in j .. (j + 10) : IsIdentifierChar(s[k])

\* a substring of the form v=X or /X starts at position i of s
FormAt(s, i) ==
    \/ i + 1 <= Len(s) /\ s[i] = "v" /\ s[i + 1] = "=" /\ IdentifierAt(s, i + 2)
    \/ i <= Len(s) /\ s[i] = "/" /\ IdentifierAt(s, i + 1)

\* the X of the form starting at position i of s
XAt(s, i) == IF s[i] = "/" THEN SubSeq(s, i + 1, i + 11) ELSE SubSeq(s, i + 2, i + 12)

\* positions of the rendered elements of one kind
ElementsOfKind(k) == {n \in DOMAIN screen : screen[n].kind = k}

\* positions of the rendered notes (st.markdown(summary))
SummaryElements == {n \in DOMAIN screen : screen[n].kind = "markdown" /\ screen[n].line = 132}

\* positions of the calls to one external service
CallsTo(svc) == {n \in DOMAIN calls : calls[n].svc = svc}

RECURSIVE Offset(_, _)
\* number of characters the fragments before the k-th contribute, one space each included
Offset(frags, k) ==
    IF k <= 1 THEN 0
    ELSE Offset(frags, k - 1) + 1 + Len(frags[k - 1].text)

----------------------------------------------------------------------------
(* C1 *)

\* C1 as stated: for every substring of the form v=X or /X of the input,
\* get_video_id returns exactly that X, also when the input holds several.
C1_ReturnsEveryX ==
    ppc = "done" =>
        \A i \in 1 .. Len(url) : FormAt(url, i) => result = XAt(url, i)

\* C1 amended: get_video_id returns the X of the leftmost substring of the
\* form v=X or /X of the input, also when X is followed by further
\* identifier characters.
C1_ReturnsLeftmostX ==
    ppc = "done" =>
        \A i \in 1 .. Len(url) :
            (FormAt(url, i) /\ \A j \in 1 .. (i - 1) : ~FormAt(url, j))
                => result = XAt(url, i)

\* two forms with different X, the first X followed by an identifier character
C1_Witness ==
    /\ ppc = "done"
    /\ \E i, j \in 1 .. Len(url) :
          /\ i < j
          /\ FormAt(url, i)
          /\ FormAt(url, j)
          /\ XAt(url, i) # XAt(url, j)
          /\ result = XAt(url, i)
          /\ url[i] = "/"
          /\ i + 12 <= Len(url)
          /\ IsIdentifierChar(url[i + 12])

----------------------------------------------------------------------------
(* C2 *)

\* C2: an input without a substring v=X or /X yields None, and every value
\* returned is 11 characters long, all of them identifier characters.
C2_NoneOrWellFormed ==
    ppc = "done" =>
        /\ (\A i \in 1 .. Len(url) : ~FormAt(url, i)) => result = None
        /\ result # None =>
              /\ Len(result) = 11
              /\ \A k \in 1 .. Len(result) : IsIdentifierChar(result[k])

\* a near miss: v= followed by only 10 identifier characters, and no form anywhere
C2_Witness ==
    /\ ppc = "done"
    /\ result = None
    /\ \A i \in 1 .. Len(url) : ~FormAt(url, i)
    /\ \E i \in 1 .. Len(url) :
          /\ i + 11 <= Len(url)
          /\ url[i] = "v"
          /\ url[i + 1] = "="
          /\ \A k \in (i + 2) .. (i + 11) : IsIdentifierChar(url[k])

----------------------------------------------------------------------------
(* C3 *)

\* C3: on success the fetcher returns " " + t1 + ... + " " + tn: each
\* fragment text once, in service order, each preceded by one space.
C3_SpaceBeforeEachFragment ==
    fetch_outcome = "ok" =>
        /\ Len(transcript_text)
              = Offset(service_transcript, Len(service_transcript) + 1)
        /\ \A k \in 1 .. Len(service_transcript) :
              /\ transcript_text[Offset(service_transcript, k) + 1] = " "
              /\ SubSeq(transcript_text,
                        Offset(service_transcript, k) + 2,
                        Offset(service_transcript, k + 1))
                    = service_transcript[k].text
        /\ service_transcript = <<[text |-> Hello], [text |-> world]>>
              => transcript_text
                    = <<" ", "H", "e", "l", "l", "o", " ", "w", "o", "r", "l", "d">>
        /\ service_transcript = <<>> => transcript_text = <<>>

\* the service returned ["Hello", "world"] and the fetcher returned " Hello world"
C3_Witness ==
    /\ fetch_outcome = "ok"
    /\ service_transcript = <<[text |-> Hello], [text |-> world]>>
    /\ transcript_text = <<" ", "H", "e", "l", "l", "o", " ", "w", "o", "r", "l", "d">>

----------------------------------------------------------------------------
(* C4 *)

\* C4: when the service raises TranscriptsDisabled the only error shown is
\* the "subtitles disabled" one, no transcript is yielded, the generation
\* service is not called and no summary is rendered.
C4_DisabledReported ==
    fetch_outcome = "TranscriptsDisabled" =>
        /\ Cardinality(ElementsOfKind("error")) = 1
        /\ \A n \in ElementsOfKind("error") :
              screen[n].text = <<"Subtitles are disabled for this video.">>
        /\ transcript_text = None
        /\ CallsTo("generate") = {}
        /\ SummaryElements = {}
        /\ pc = "idle"

\* a run whose transcript call raised TranscriptsDisabled has ended
C4_Witness ==
    /\ clicked
    /\ fetch_outcome = "TranscriptsDisabled"
    /\ pc = "idle"
    /\ Len(calls) = 1

----------------------------------------------------------------------------
(* C5 *)

\* C5 as stated: when the fetch succeeds and the generation call returns X,
\* the rendered summary is X, for every X including the empty string.
C5_RendersReturnedText ==
    (clicked /\ pc = "idle" /\ fetch_outcome = "ok" /\ gen_outcome = "ok") =>
        /\ Cardinality(SummaryElements) = 1
        /\ \A n \in SummaryElements : screen[n].text = gen_text

----------------------------------------------------------------------------
(* C6 *)

\* C6: pressing the button with an empty link shows the warning and nothing
\* else: no transcript call, no generation call, no thumbnail, no summary.
C6_EmptyLinkWarns ==
    (clicked /\ youtube_link = <<>>) =>
        /\ pc = "idle"
        /\ Cardinality(ElementsOfKind("warning")) = 1
        /\ \A n \in ElementsOfKind("warning") :
              screen[n].text = <<"Please enter a YouTube link first.">>
        /\ calls = <<>>
        /\ ElementsOfKind("image") = {}
        /\ ElementsOfKind("markdown") = {}

\* the button was pressed while the link was empty
C6_Witness ==
    /\ clicked
    /\ youtube_link = <<>>
    /\ screen # <<>>

----------------------------------------------------------------------------
(* C7 *)

\* C7: a failure of the fetch or of the generation call never reaches the
\* script, shows exactly one error, and ends the pipeline: no later call,
\* no summary.
C7_FailureCaughtOnceAndFinal ==
    /\ raised = FALSE
    /\ fetch_outcome \in TranscriptExceptions =>
          /\ Cardinality(ElementsOfKind("error")) = 1
          /\ CallsTo("generate") = {}
          /\ gen_outcome = "none"
          /\ SummaryElements = {}
          /\ pc = "idle"
    /\ gen_outcome \in GenerateExceptions =>
          /\ Cardinality(ElementsOfKind("error")) = 1
          /\ Len(calls) = 2
          /\ SummaryElements = {}
          /\ pc = "idle"

\* a run whose transcript call failed with an error other than the two named ones
C7_Witness ==
    /\ clicked
    /\ fetch_outcome = "RequestException"
    /\ pc = "idle"
    /\ \E n \in ElementsOfKind("error") :
          screen[n].text = <<"Error extracting transcript: ", "RequestException">>

----------------------------------------------------------------------------
(* C8 *)

\* C8 as stated: a button run with a non-empty link that ends without a
\* rendered summary has shown a warning or an error.
C8_NoSilentRun ==
    (clicked /\ pc = "idle" /\ youtube_link # <<>> /\ SummaryElements = {}) =>
        ElementsOfKind("warning") \cup ElementsOfKind("error") # {}

----------------------------------------------------------------------------
(* C9 *)

\* C9: the argument of every generation call is the template followed by
\* the transcript text the fetch of the same run returned, nothing else.
C9_PromptIsTemplateThenTranscript ==
    \A n \in CallsTo("generate") :
        /\ fetch_outcome = "ok"
        /\ Len(calls[n].arg) = Len(system_prompt) + Len(transcript_text)
        /\ SubSeq(calls[n].arg, 1, Len(system_prompt)) = system_prompt
        /\ SubSeq(calls[n].arg, Len(system_prompt) + 1, Len(calls[n].arg))
              = transcript_text

\* the generation service is being called with a two-fragment transcript
C9_Witness ==
    /\ pc = "generating"
    /\ CallsTo("generate") # {}
    /\ Len(service_transcript) = 2
    /\ Len(transcript_text) > 2

----------------------------------------------------------------------------
(* C10 *)

\* at most one transcript call, then at most one generation call, per run
C10_CallsOfRun ==
    /\ Len(calls) <= 2
    /\ Cardinality(CallsTo("transcript")) <= 1
    /\ Cardinality(CallsTo("generate")) <= 1
    /\ Len(calls) >= 1 => calls[1].svc = "transcript" /\ clicked
    /\ Len(calls) = 2 =>
          /\ calls[2].svc = "generate"
          /\ fetch_outcome = "ok"
          /\ Truthy(transcript_text)
    /\ fetch_outcome \in TranscriptExceptions => Len(calls) = 1 /\ pc = "idle"
    /\ gen_outcome \in GenerateExceptions => Len(calls) = 2 /\ pc = "idle"
    /\ pc = "fetching" => Len(calls) = 1
    /\ pc = "generating" => Len(calls) = 2

\* C10: a run makes at most one transcript call and then at most one
\* generation call, the latter only after the fetch returned a transcript;
\* nothing is retried, and once a run has ended a call is made only by a
\* step in which the user presses the button again.
C10_OneCallEachInOrder ==
    /\ []C10_CallsOfRun
    /\ [][(pc = "idle" /\ calls' # <<>>) =>
             (clicked' /\ Len(calls') = 1 /\ calls'[1].svc = "transcript")]_vars
    /\ [][(pc # "idle") => (Len(calls') <= Len(calls) + 1 /\ clicked' = clicked)]_vars

\* a run that failed in the generation call, after one call to each service
C10_Witness ==
    /\ clicked
    /\ pc = "idle"
    /\ gen_outcome \in GenerateExceptions
    /\ Len(calls) = 2

====
